---- MODULE Spec2Model ----
(***************************************************************************)
(* afl-showmap: run one instrumented target under the fork-server          *)
(* protocol, then count, classify and print the shared trace bitmap.       *)
(* The tool (parent), the forked child up to execvp, and the fork server   *)
(* with its worker are processes of one state machine.                     *)
(***************************************************************************)
EXTENDS Integers, Sequences, FiniteSets

(* ------------------------------ bounds -------------------------------- *)

\* log2 of the bitmap length (config.h sets 16; the model scales it down)
MAP_SIZE_POW2 == 2

\* most bitmap entries one worker execution touches
MaxHits == 1

(* ----------------------------- constants ------------------------------ *)

RECURSIVE Pow2(_)
Pow2(n) == IF n = 0 THEN 1 ELSE 2 * Pow2(n - 1)

MAP_SIZE == Pow2(MAP_SIZE_POW2)

FORKSRV_FD == 198

Byte == 0..255

(* ------------------- 32-bit words as 4 little-endian bytes ------------ *)
(* A u32 is <<b0, b1, b2, b3>>, b0 the least significant byte: the layout  *)
(* of a u32 load on the little-endian machines the tool is built for.      *)

\* the element of a one-element set; binding a name by x \in {e} computes
\* e once, where a LET would compute it again at every use
The(S) == CHOOSE x \in S : TRUE

RECURSIVE BitAnd(_, _)
BitAnd(a, b) ==
  IF a = 0 \/ b = 0 THEN 0
  ELSE (a % 2) * (b % 2) + 2 * BitAnd(a \div 2, b \div 2)

U32And(v, m) ==
  <<BitAnd(v[1], m[1]), BitAnd(v[2], m[2]), BitAnd(v[3], m[3]), BitAnd(v[4], m[4])>>

\* v >> k for 0 < k < 8
U32ShrBits(v, k) ==
  LET lo == Pow2(k)
      hi == Pow2(8 - k)
  IN  <<(v[1] \div lo) + (v[2] % lo) * hi,
        (v[2] \div lo) + (v[3] % lo) * hi,
        (v[3] \div lo) + (v[4] % lo) * hi,
        v[4] \div lo>>

\* v >> 24
U32Shr24(v) == <<v[4], 0, 0, 0>>

\* (a + b) mod 2^32
U32Add(a, b) ==
  LET s1 == a[1] + b[1]
      s2 == a[2] + b[2] + (s1 \div 256)
      s3 == a[3] + b[3] + (s2 \div 256)
      s4 == a[4] + b[4] + (s3 \div 256)
  IN  <<s1 % 256, s2 % 256, s3 % 256, s4 % 256>>

\* (a - b) mod 2^32
U32Sub(a, b) ==
  LET d1 == a[1] - b[1]
      d2 == a[2] - b[2] - (IF d1 < 0 THEN 1 ELSE 0)
      d3 == a[3] - b[3] - (IF d2 < 0 THEN 1 ELSE 0)
      d4 == a[4] - b[4] - (IF d3 < 0 THEN 1 ELSE 0)
  IN  <<(d1 + 256) % 256, (d2 + 256) % 256, (d3 + 256) % 256, (d4 + 256) % 256>>

\* v << (8 * n) mod 2^32
U32ShlBytes(v, n) ==
  <<IF n = 0 THEN v[1] ELSE 0,
    IF n = 0 THEN v[2] ELSE IF n = 1 THEN v[1] ELSE 0,
    IF n = 0 THEN v[3] ELSE IF n = 1 THEN v[2] ELSE IF n = 2 THEN v[1] ELSE 0,
    IF n = 0 THEN v[4] ELSE IF n = 1 THEN v[3] ELSE IF n = 2 THEN v[2]
                       ELSE IF n = 3 THEN v[1] ELSE 0>>

\* (v * m) mod 2^32, m a byte
U32MulByte(v, m) ==
  LET p1 == v[1] * m
      p2 == v[2] * m + (p1 \div 256)
      p3 == v[3] * m + (p2 \div 256)
      p4 == v[4] * m + (p3 \div 256)
  IN  <<p1 % 256, p2 % 256, p3 % 256, p4 % 256>>

\* (a * b) mod 2^32
U32Mul(a, b) ==
  The({U32Add(lo, hi) :
         lo \in {The({U32Add(p0, U32ShlBytes(p1, 1)) :
                        p0 \in {U32MulByte(a, b[1])}, p1 \in {U32MulByte(a, b[2])}})},
         hi \in {The({U32Add(U32ShlBytes(p2, 2), U32ShlBytes(p3, 3)) :
                        p2 \in {U32MulByte(a, b[3])}, p3 \in {U32MulByte(a, b[4])}})}})

\* value of a word known to be below 2^31
U32Val(v) == v[1] + 256 * v[2] + 65536 * v[3] + 16777216 * v[4]

(* ------------------------- bitmap algorithms --------------------------- *)

\* mutant: the second range runs one entry too far (case 4 ... 8)
M_ClassifyEntry_OffByOne(v) ==
  CASE v = 3              -> Pow2(2)
    [] v >= 4 /\ v <= 8     -> Pow2(3)
    [] v >= 9 /\ v <= 15    -> Pow2(4)
    [] v >= 16 /\ v <= 31   -> Pow2(5)
    [] v >= 32 /\ v <= 127  -> Pow2(6)
    [] v >= 128 /\ v <= 255 -> Pow2(7)
    [] OTHER                -> v

\* mutant: the shifts of the first two cases are swapped
M_ClassifyEntry_Swapped(v) ==
  CASE v = 3              -> Pow2(3)
    [] v >= 4 /\ v <= 7     -> Pow2(2)
    [] v >= 8 /\ v <= 15    -> Pow2(4)
    [] v >= 16 /\ v <= 31   -> Pow2(5)
    [] v >= 32 /\ v <= 127  -> Pow2(6)
    [] v >= 128 /\ v <= 255 -> Pow2(7)
    [] OTHER                -> v

\* mutant: the last case stores 1 << 8, which a u8 truncates to 0
M_ClassifyEntry_Shift8(v) ==
  CASE v = 3              -> Pow2(2)
    [] v >= 4 /\ v <= 7     -> Pow2(3)
    [] v >= 8 /\ v <= 15    -> Pow2(4)
    [] v >= 16 /\ v <= 31   -> Pow2(5)
    [] v >= 32 /\ v <= 127  -> Pow2(6)
    [] v >= 128 /\ v <= 255 -> Pow2(8) % 256
    [] OTHER                -> v

\* the switch of classify_counts, applied to one entry
ClassifyEntry(v) ==
  CASE v = 3              -> Pow2(2)
    [] v >= 4 /\ v <= 7     -> Pow2(3)
    [] v >= 8 /\ v <= 15    -> Pow2(4)
    [] v >= 16 /\ v <= 31   -> Pow2(5)
    [] v >= 32 /\ v <= 127  -> Pow2(6)
    [] v >= 128 /\ v <= 255 -> Pow2(7)
    [] OTHER                -> v

RECURSIVE ClassifyLoop(_, _, _)
\* while (i--) { switch (*mem) ...; mem++; } with mem at offset pos
ClassifyLoop(mem, pos, i) ==
  IF i = 0 THEN mem
  ELSE The({ClassifyLoop([mem EXCEPT ![pos] = e], pos + 1, i - 1) :
              e \in {ClassifyEntry(mem[pos])}})

classify_counts(mem) == ClassifyLoop(mem, 0, MAP_SIZE)

\* the u32 at word index w of the bitmap
LoadWord(mem, w) == <<mem[4 * w], mem[4 * w + 1], mem[4 * w + 2], mem[4 * w + 3]>>

M55 == <<85, 85, 85, 85>>
M33 == <<51, 51, 51, 51>>
M0F == <<15, 15, 15, 15>>
M01 == <<1, 1, 1, 1>>

\* mutant: the mask 0xF0F0F0F before the multiplication is left out
M_WordBits_NoNibbleMask(v0) ==
  LET v1 == U32Sub(v0, U32And(U32ShrBits(v0, 1), M55))
      v2 == U32Add(U32And(v1, M33), U32And(U32ShrBits(v1, 2), M33))
  IN  U32Val(U32Shr24(U32Mul(U32Add(v2, U32ShrBits(v2, 4)), M01)))

\* the three statements of the count_bits loop body, for one word: v1 and
\* v2 are v after the first and the second statement, s the masked sum
WordBits(v0) ==
  The({The({The({The({U32Val(U32Shr24(U32Mul(s, M01))) :
                      s \in {U32And(U32Add(v2, U32ShrBits(v2, 4)), M0F)}}) :
                 v2 \in {U32Add(U32And(v1, M33), U32And(U32ShrBits(v1, 2), M33))}}) :
            v1 \in {U32Sub(v, U32And(U32ShrBits(v, 1), M55))}}) :
       v \in {v0}})

RECURSIVE CountLoop(_, _, _, _)
\* while (i--) { v = *(ptr++); ...; ret += ...; } with ptr at word w
CountLoop(mem, w, i, ret) ==
  IF i = 0 THEN ret
  ELSE CountLoop(mem, w + 1, i - 1, ret + WordBits(LoadWord(mem, w)))

\* mutant: the word count is MAP_SIZE >> 3
M_count_bits_HalfTheWords(mem) == CountLoop(mem, 0, MAP_SIZE \div 8, 0)

count_bits(mem) == CountLoop(mem, 0, MAP_SIZE \div 4, 0)

RECURSIVE TupleLoop(_, _, _)
\* for (i = 0; i < MAP_SIZE; i++) if (*current) SAYF("%05u/%u\n", i, *current)
TupleLoop(mem, i, lines) ==
  IF i >= MAP_SIZE THEN lines
  ELSE TupleLoop(mem, i + 1,
                 IF mem[i] # 0 THEN Append(lines, <<"tuple", i, mem[i]>>) ELSE lines)

\* show_tuples with the loop started at the second entry
M_TupleLines_FromOne(mem) == TupleLoop(mem, 1, <<>>)

\* what show_tuples prints for the (classified) bitmap mem
TupleLines(mem) == TupleLoop(mem, 0, <<>>)

(* ------------------------------- state --------------------------------- *)

VARIABLES
  pc,           \* where the tool (parent) is
  argc,         \* number of command-line words
  env,          \* names set in the environment
  be_quiet,     \* static u8 be_quiet
  sink_output,  \* static u8 sink_output
  shm,          \* the region of shm_id: "none", "allocated", "removed"
  rmid_by,      \* processes that issued shmctl(shm_id, IPC_RMID)
  atexit_reg,   \* processes whose exit() runs remove_shm
  trace_bits,   \* the pointer: "null", "mapped", "bad" (shmat's (void*)-1)
  bitmap,       \* contents of the region
  fd_base,      \* lowest descriptor number free when the tool starts
  fds,          \* descriptor table of each process
  st_pipe,      \* int st_pipe[2]
  ctl_pipe,     \* int ctl_pipe[2]
  st,           \* bytes in flight on the status pipe
  ctl,          \* bytes in flight on the control pipe
  forksrv_pid,  \* static s32 forksrv_pid, as seen by the parent
  child_pid,    \* static s32 child_pid, as 4 bytes
  status,       \* int status of run_target, as 4 bytes
  exit_code,    \* exit status of the tool, -1 while it runs
  out,          \* what the tool has printed
  sys,          \* fork/write/read calls of the parent: <<call, result, object>>
  bits,         \* value count_bits() returned, -1 before
  cpc,          \* where the child (later the fork server) is
  rlim,         \* child: r.rlim_cur once lines 175-180 ran, 0 before
  wpc,          \* the worker: "none", "running", "exited"
  hits,         \* bitmap writes the worker has made
  wstatus       \* wait status of the worker, 4 bytes

vars == <<pc, argc, env, be_quiet, sink_output, shm, rmid_by, atexit_reg,
          trace_bits, bitmap, fd_base, fds, st_pipe, ctl_pipe, st, ctl,
          forksrv_pid, child_pid, status, exit_code, out, sys, bits,
          cpc, rlim, wpc, hits, wstatus>>

ZeroWord == <<0, 0, 0, 0>>
ZeroMap == [i \in 0..(MAP_SIZE - 1) |-> 0]

\* one printed message: kind and two numbers
Msg(k, a, b) == <<k, a, b>>

FaultMsg == "No instrumentation detected or fork server fault"
NoDataMsg == "No instrumentation data recorded"

(* ------------------------- descriptor tables --------------------------- *)
(* A table maps the descriptor numbers the run has touched to what they    *)
(* refer to ("closed" once closed); an untouched number below fd_base is   *)
(* open on something inherited, an untouched number from fd_base up is     *)
(* free.                                                                   *)

PipeEnds == {"st_r", "st_w", "ctl_r", "ctl_w"}

FdTarget(tab, n) ==
  IF n \in DOMAIN tab THEN tab[n]
  ELSE IF n < fd_base THEN "other" ELSE "closed"

FdOpen(tab, n) == FdTarget(tab, n) # "closed"

FdSet(tab, n, t) == [m \in DOMAIN tab \cup {n} |-> IF m = n THEN t ELSE tab[m]]

FdClose(tab, n) == IF FdOpen(tab, n) THEN FdSet(tab, n, "closed") ELSE tab

\* the number open(), pipe() hand out next: the lowest one not open
LowestFree(tab) ==
  LET cand == {n \in DOMAIN tab \cup (fd_base..(fd_base + Cardinality(DOMAIN tab))) :
                 ~FdOpen(tab, n)}
  IN  CHOOSE n \in cand : \A m \in cand : n <= m

\* dup2(old, new): the table after a successful call
FdDup2(tab, old, new) ==
  IF old = new THEN tab ELSE FdSet(tab, new, FdTarget(tab, old))

AllClosed(tab) == [m \in DOMAIN tab |-> "closed"]

\* process p holds a descriptor for pipe end e
HasEnd(p, e) == \E n \in DOMAIN fds[p] : fds[p][n] = e

AnyHas(e) == HasEnd("parent", e) \/ HasEnd("child", e)

(* ------------------------------ the tool ------------------------------- *)

envVars == <<argc, env, fd_base>>
childVars == <<cpc, rlim, wpc, hits, wstatus>>
pipeVars == <<st, ctl>>
shmVars == <<shm, rmid_by>>
resultVars == <<forksrv_pid, child_pid, status, bits>>

\* remove_shm(): shmctl(shm_id, IPC_RMID, NULL) issued by process p
remove_shm(p) ==
  /\ shm' = IF shm = "allocated" THEN "removed" ELSE shm
  /\ rmid_by' = rmid_by \cup {p}

\* exit(code) in the parent, after printing msgs: the atexit handlers run,
\* then the kernel closes every descriptor (tab: the table at the call)
ParentExit(code, msgs, tab) ==
  /\ pc' = "exited"
  /\ exit_code' = code
  /\ out' = out \o msgs
  /\ IF "parent" \in atexit_reg THEN remove_shm("parent") ELSE UNCHANGED shmVars
  /\ fds' = [fds EXCEPT !["parent"] = AllClosed(tab)]

\* FATAL(msg) / PFATAL(msg) of debug.h: print, then exit(1)
Fatal(msg, tab) == ParentExit(1, <<Msg(msg, 0, 0)>>, tab)

\* the parent dies of a signal: no handler runs, the descriptors close
ParentKilled(sig) ==
  /\ pc' = "killed"
  /\ exit_code' = 128 + sig
  /\ fds' = [fds EXCEPT !["parent"] = AllClosed(@)]
  /\ UNCHANGED <<out, shmVars>>

\* main with the argument test off by one: if (argc < 1) usage(argv[0])
M_P_Main_ArgcOffByOne ==
  /\ pc = "main"
  /\ be_quiet' = ("AFL_QUIET" \in env)
  /\ LET banner == IF "AFL_QUIET" \in env THEN <<>> ELSE <<Msg("banner", 0, 0)>>
     IN  IF argc < 1
         THEN ParentExit(1, banner \o <<Msg("usage", 0, 0)>>, fds["parent"])
         ELSE /\ pc' = "setup_shm"
              /\ out' = out \o banner
              /\ UNCHANGED <<exit_code, shmVars, fds>>
  /\ UNCHANGED <<envVars, sink_output, atexit_reg, trace_bits, bitmap, st_pipe,
                 ctl_pipe, pipeVars, resultVars, sys, childVars>>

\* main(), up to the call of setup_shm
P_Main ==
  /\ pc = "main"
  /\ be_quiet' = ("AFL_QUIET" \in env)
  /\ LET banner == IF "AFL_QUIET" \in env THEN <<>> ELSE <<Msg("banner", 0, 0)>>
     IN  IF argc < 2
         THEN ParentExit(1, banner \o <<Msg("usage", 0, 0)>>, fds["parent"])
         ELSE /\ pc' = "setup_shm"
              /\ out' = out \o banner
              /\ UNCHANGED <<exit_code, shmVars, fds>>
  /\ UNCHANGED <<envVars, sink_output, atexit_reg, trace_bits, bitmap, st_pipe,
                 ctl_pipe, pipeVars, resultVars, sys, childVars>>

\* setup_shm(); got: what shmget returned, at: what shmat returned
SetupShm(got, at) ==
  /\ pc = "setup_shm"
  /\ IF got = "fail"
     THEN /\ Fatal("shmget() failed", fds["parent"])
          /\ UNCHANGED <<atexit_reg, trace_bits>>
     ELSE /\ atexit_reg' = atexit_reg \cup {"parent"}
          /\ trace_bits' = at
          \* the test is !trace_bits
          /\ IF at = "null"
             THEN /\ pc' = "exited"
                  /\ exit_code' = 1
                  /\ out' = Append(out, Msg("shmat() failed", 0, 0))
                  /\ shm' = "removed"
                  /\ rmid_by' = rmid_by \cup {"parent"}
                  /\ fds' = [fds EXCEPT !["parent"] = AllClosed(@)]
             ELSE /\ pc' = "pipe"
                  /\ shm' = "allocated"
                  /\ UNCHANGED <<exit_code, out, rmid_by, fds>>
  /\ UNCHANGED <<envVars, be_quiet, sink_output, bitmap, st_pipe, ctl_pipe,
                 pipeVars, resultVars, sys, childVars>>

\* shmget can fail; shmat returns the address, or (void*)-1 on failure
P_SetupShm == \E got \in {"ok", "fail"}, at \in {"mapped", "bad"} : SetupShm(got, at)

\* main() lines 270-273, then both pipe() calls of run_target
Pipe(res) ==
  /\ pc = "pipe"
  /\ sink_output' = ("AFL_SINK_OUTPUT" \in env)
  /\ \E begin \in {IF ~be_quiet /\ ~sink_output'
                      THEN <<Msg("-- Program output begins --", 0, 0)>> ELSE <<>>},
        tab0 \in {fds["parent"]} :
     \E s0 \in {LowestFree(tab0)} :
     \E tab1 \in {FdSet(tab0, s0, "st_r")} :
     \E s1 \in {LowestFree(tab1)} :
     \E tab2 \in {FdSet(tab1, s1, "st_w")} :
     \E c0 \in {LowestFree(tab2)} :
     \E tab3 \in {FdSet(tab2, c0, "ctl_r")} :
     \E c1 \in {LowestFree(tab3)} :
     \E tab4 \in {FdSet(tab3, c1, "ctl_w")} :
         CASE res = "fail_st" ->
                /\ ParentExit(1, begin \o <<Msg("pipe() failed", 0, 0)>>, tab0)
                /\ UNCHANGED <<st_pipe, ctl_pipe>>
           [] res = "fail_ctl" ->
                /\ st_pipe' = <<s0, s1>>
                /\ ParentExit(1, begin \o <<Msg("pipe() failed", 0, 0)>>, tab2)
                /\ UNCHANGED ctl_pipe
           [] OTHER ->
                /\ st_pipe' = <<s0, s1>>
                /\ ctl_pipe' = <<c0, c1>>
                /\ fds' = [fds EXCEPT !["parent"] = tab4]
                /\ out' = out \o begin
                /\ pc' = "fork"
                /\ UNCHANGED <<exit_code, shmVars>>
  /\ UNCHANGED <<envVars, be_quiet, atexit_reg, trace_bits, bitmap, pipeVars,
                 resultVars, sys, childVars>>

P_Pipe == \E res \in {"ok", "fail_st", "fail_ctl"} : Pipe(res)

\* forksrv_pid = fork(); pid: what fork returned in the parent
Fork(pid) ==
  /\ pc = "fork"
  /\ forksrv_pid' = pid
  /\ sys' = Append(sys, <<"fork", pid, "forksrv_pid">>)
  /\ IF pid < 0
     THEN /\ Fatal("fork() failed", fds["parent"])
          /\ UNCHANGED <<atexit_reg, cpc>>
     ELSE /\ pc' = "close_ends"
          /\ cpc' = "rlimit"
          /\ fds' = [fds EXCEPT !["child"] = fds["parent"]]
          /\ atexit_reg' = IF "parent" \in atexit_reg
                           THEN atexit_reg \cup {"child"} ELSE atexit_reg
          /\ UNCHANGED <<exit_code, out, shmVars>>
  /\ UNCHANGED <<envVars, be_quiet, sink_output, trace_bits, bitmap, st_pipe,
                 ctl_pipe, pipeVars, child_pid, status, bits, rlim, wpc,
                 hits, wstatus>>

P_Fork == \E pid \in {-1, 5} : Fork(pid)

\* close(ctl_pipe[0]); close(st_pipe[1]);
P_CloseEnds ==
  /\ pc = "close_ends"
  /\ fds' = [fds EXCEPT !["parent"] = FdClose(FdClose(@, ctl_pipe[1]), st_pipe[2])]
  /\ pc' = "write_trigger"
  /\ UNCHANGED <<envVars, be_quiet, sink_output, shmVars, atexit_reg, trace_bits,
                 bitmap, st_pipe, ctl_pipe, pipeVars, resultVars, exit_code,
                 out, sys, childVars>>

Min(a, b) == IF a < b THEN a ELSE b

\* the first n bytes of buf replaced by data
Overwrite(buf, data) ==
  <<IF 1 <= Len(data) THEN data[1] ELSE buf[1],
    IF 2 <= Len(data) THEN data[2] ELSE buf[2],
    IF 3 <= Len(data) THEN data[3] ELSE buf[3],
    IF 4 <= Len(data) THEN data[4] ELSE buf[4]>>

\* mutant: only end-of-file and errors count as a failed read
M_ShortRead_OnlyEof(n) == n <= 0

\* read(...) != 4, with n what read returned
ShortRead(n) == n # 4

\* mutant: the test is child_pid < 0
M_S32Positive_AllowsZero(w) == w[4] < 128

\* child_pid <= 0 is false: the 4 bytes read as s32 are > 0
S32Positive(w) == w[4] < 128 /\ w # ZeroWord

\* a test that takes every non-zero status for a death by signal
M_WIFSIGNALED_AnyNonZero(w) == w # ZeroWord

\* WIFSIGNALED(status) and WTERMSIG(status) on the 4 bytes of status
WIFSIGNALED(w) == (w[1] % 128) >= 1 /\ (w[1] % 128) <= 126
WTERMSIG(w) == w[1] % 128

\* write(ctl_pipe[1], &status, 4) != 4 -> FATAL; disp: the disposition of
\* SIGPIPE the tool inherited
WriteTrigger(disp) ==
  /\ pc = "write_trigger"
  /\ IF AnyHas("ctl_r")
     THEN /\ ctl' = ctl \o status
          /\ sys' = Append(sys, <<"write", 4, "status">>)
          /\ pc' = "read_ack"
          /\ UNCHANGED <<exit_code, out, shmVars, fds>>
     ELSE \* EPIPE: the kernel raises SIGPIPE before write returns -1
          /\ sys' = Append(sys, <<"write", -1, "status">>)
          /\ UNCHANGED ctl
          /\ IF disp = "default"
             THEN ParentKilled(13)
             ELSE Fatal(FaultMsg, fds["parent"])
  /\ UNCHANGED <<envVars, be_quiet, sink_output, atexit_reg, trace_bits, bitmap,
                 st_pipe, ctl_pipe, st, resultVars, childVars>>

P_WriteTrigger == \E disp \in {"default", "ignored"} : WriteTrigger(disp)

\* a read that returns at once, whether or not anything is queued
M_ReadReady_NonBlocking == TRUE

\* read(st_pipe[0], buf, 4) can return: data is queued, or no writer is left
ReadReady == Len(st) > 0 \/ ~AnyHas("st_w")

\* the bytes read(st_pipe[0], buf, 4) returns
ReadData == SubSeq(st, 1, Min(4, Len(st)))

ReadRest == SubSeq(st, Min(4, Len(st)) + 1, Len(st))

\* mutant: a short hello makes the parent send the trigger again
M_P_ReadAck_Retry ==
  /\ pc = "read_ack"
  /\ ReadReady
  /\ st' = ReadRest
  /\ status' = Overwrite(status, ReadData)
  /\ sys' = Append(sys, <<"read", Len(ReadData), "status">>)
  /\ pc' = IF ShortRead(Len(ReadData)) THEN "write_trigger" ELSE "read_pid"
  /\ UNCHANGED <<exit_code, out, shmVars, fds>>
  /\ UNCHANGED <<envVars, be_quiet, sink_output, atexit_reg, trace_bits, bitmap,
                 st_pipe, ctl_pipe, ctl, forksrv_pid, child_pid, bits, childVars>>

\* read(st_pipe[0], &status, 4) != 4, the "hi mom" word
P_ReadAck ==
  /\ pc = "read_ack"
  /\ ReadReady
  /\ st' = ReadRest
  /\ status' = Overwrite(status, ReadData)
  /\ sys' = Append(sys, <<"read", Len(ReadData), "status">>)
  /\ IF ShortRead(Len(ReadData))
     THEN Fatal(FaultMsg, fds["parent"])
     ELSE /\ pc' = "read_pid"
          /\ UNCHANGED <<exit_code, out, shmVars, fds>>
  /\ UNCHANGED <<envVars, be_quiet, sink_output, atexit_reg, trace_bits, bitmap,
                 st_pipe, ctl_pipe, ctl, forksrv_pid, child_pid, bits, childVars>>

\* mutant: the third read is left out, run_target returns after the pid
M_P_ReadPid_SkipsStatus ==
  /\ pc = "read_pid"
  /\ ReadReady
  /\ st' = ReadRest
  /\ child_pid' = Overwrite(child_pid, ReadData)
  /\ sys' = Append(sys, <<"read", Len(ReadData), "child_pid">>)
  /\ IF ShortRead(Len(ReadData)) \/ ~S32Positive(child_pid')
     THEN Fatal(FaultMsg, fds["parent"])
     ELSE /\ pc' = "count_bits"
          /\ UNCHANGED <<exit_code, out, shmVars, fds>>
  /\ UNCHANGED <<envVars, be_quiet, sink_output, atexit_reg, trace_bits, bitmap,
                 st_pipe, ctl_pipe, ctl, forksrv_pid, status, bits, childVars>>

\* read(st_pipe[0], &child_pid, 4) != 4 || child_pid <= 0
P_ReadPid ==
  /\ pc = "read_pid"
  /\ ReadReady
  /\ st' = ReadRest
  /\ child_pid' = Overwrite(child_pid, ReadData)
  /\ sys' = Append(sys, <<"read", Len(ReadData), "child_pid">>)
  /\ IF ShortRead(Len(ReadData)) \/ ~S32Positive(child_pid')
     THEN Fatal(FaultMsg, fds["parent"])
     ELSE /\ pc' = "read_status"
          /\ UNCHANGED <<exit_code, out, shmVars, fds>>
  /\ UNCHANGED <<envVars, be_quiet, sink_output, atexit_reg, trace_bits, bitmap,
                 st_pipe, ctl_pipe, ctl, forksrv_pid, status, bits, childVars>>

\* read(st_pipe[0], &status, 4) != 4; then the rest of run_target and
\* main() up to the call of count_bits
P_ReadStatus ==
  /\ pc = "read_status"
  /\ ReadReady
  /\ st' = ReadRest
  /\ status' = Overwrite(status, ReadData)
  /\ sys' = Append(sys, <<"read", Len(ReadData), "status">>)
  /\ IF ShortRead(Len(ReadData))
     THEN Fatal(FaultMsg, fds["parent"])
     ELSE /\ pc' = "count_bits"
          /\ out' = out
               \o (IF WIFSIGNALED(status')
                   THEN <<Msg("+++ Killed by signal", WTERMSIG(status'), 0)>>
                   ELSE <<>>)
               \o (IF ~be_quiet /\ ~sink_output
                   THEN <<Msg("-- Program output ends --", 0, 0)>> ELSE <<>>)
          /\ UNCHANGED <<exit_code, shmVars, fds>>
  /\ UNCHANGED <<envVars, be_quiet, sink_output, atexit_reg, trace_bits, bitmap,
                 st_pipe, ctl_pipe, ctl, forksrv_pid, child_pid, bits, childVars>>

\* if (!count_bits()) FATAL(...)
P_CountBits ==
  /\ pc = "count_bits"
  /\ IF trace_bits # "mapped"
     THEN \* the loads go through (void*)-1: the process takes SIGSEGV
          /\ ParentKilled(11)
          /\ UNCHANGED bits
     ELSE /\ bits' = count_bits(bitmap)
          /\ IF bits' = 0
             THEN Fatal(NoDataMsg, fds["parent"])
             ELSE /\ pc' = "show_tuples"
                  /\ UNCHANGED <<exit_code, out, shmVars, fds>>
  /\ UNCHANGED <<envVars, be_quiet, sink_output, atexit_reg, trace_bits, bitmap,
                 st_pipe, ctl_pipe, pipeVars, forksrv_pid, child_pid, status,
                 sys, childVars>>

\* the header, show_tuples(), exit(0)
P_ShowTuples ==
  /\ pc = "show_tuples"
  /\ bitmap' = classify_counts(bitmap)
  /\ ParentExit(0,
       (IF ~be_quiet THEN <<Msg("Tuples recorded:", 0, 0)>> ELSE <<>>)
         \o TupleLines(bitmap'),
       fds["parent"])
  /\ UNCHANGED <<envVars, be_quiet, sink_output, atexit_reg, trace_bits,
                 st_pipe, ctl_pipe, pipeVars, resultVars, sys, childVars>>

(* ----------------------- the child, up to execvp ----------------------- *)

parentVars == <<pc, be_quiet, sink_output, trace_bits, st_pipe, ctl_pipe,
                resultVars, exit_code, out, sys>>

\* exit(1) in the child: the handlers registered before fork() run here too
ChildExit ==
  /\ cpc' = "exited"
  /\ fds' = [fds EXCEPT !["child"] = AllClosed(@)]
  /\ IF "child" \in atexit_reg THEN remove_shm("child") ELSE UNCHANGED shmVars

\* highest descriptor number the child holds right after fork()
MaxPipeFd == IF st_pipe[2] > ctl_pipe[2] THEN st_pipe[2] ELSE ctl_pipe[2]

\* getrlimit / setrlimit(RLIMIT_NOFILE), errors ignored; lim: the soft
\* limit in force afterwards
Rlimit(lim) ==
  /\ cpc = "rlimit"
  /\ lim > MaxPipeFd
  /\ rlim' = lim
  /\ cpc' = "sink"
  /\ UNCHANGED <<envVars, parentVars, shmVars, atexit_reg, bitmap, fds, pipeVars,
                 wpc, hits, wstatus>>

\* too low for FORKSRV_FD, too low for FORKSRV_FD + 1, ample
RlimChoices == {FORKSRV_FD, FORKSRV_FD + 1, FORKSRV_FD + 6}

C_Rlimit == \E lim \in RlimChoices : Rlimit(lim)

\* if (sink_output) { open, dup2, dup2, close }; opened: open() succeeded
Sink(opened) ==
  /\ cpc = "sink"
  /\ IF sink_output
     THEN IF ~opened \/ LowestFree(fds["child"]) >= rlim
          THEN ChildExit
          ELSE /\ fds' = [fds EXCEPT !["child"] =
                   LET fd == LowestFree(@)
                   IN  FdClose(FdDup2(FdDup2(FdSet(@, fd, "null"), fd, 1), fd, 2), fd)]
               /\ cpc' = "dup2_ctl"
               /\ UNCHANGED shmVars
     ELSE /\ cpc' = "dup2_ctl"
          /\ UNCHANGED <<fds, shmVars>>
  /\ UNCHANGED <<envVars, parentVars, atexit_reg, bitmap, pipeVars, rlim, wpc,
                 hits, wstatus>>

C_Sink == \E opened \in BOOLEAN : Sink(opened)

\* dup2(old, new) < 0
Dup2Fails(tab, old, new) == ~FdOpen(tab, old) \/ new >= rlim

\* if (dup2(ctl_pipe[0], FORKSRV_FD) < 0) PFATAL
C_Dup2Ctl ==
  /\ cpc = "dup2_ctl"
  /\ IF Dup2Fails(fds["child"], ctl_pipe[1], FORKSRV_FD)
     THEN ChildExit
     ELSE /\ fds' = [fds EXCEPT !["child"] = FdDup2(@, ctl_pipe[1], FORKSRV_FD)]
          /\ cpc' = "dup2_st"
          /\ UNCHANGED shmVars
  /\ UNCHANGED <<envVars, parentVars, atexit_reg, bitmap, pipeVars, rlim, wpc,
                 hits, wstatus>>

\* if (dup2(st_pipe[1], FORKSRV_FD + 1) < 0) PFATAL
C_Dup2St ==
  /\ cpc = "dup2_st"
  /\ IF Dup2Fails(fds["child"], st_pipe[2], FORKSRV_FD + 1)
     THEN ChildExit
     ELSE /\ fds' = [fds EXCEPT !["child"] = FdDup2(@, st_pipe[2], FORKSRV_FD + 1)]
          /\ cpc' = "close"
          /\ UNCHANGED shmVars
  /\ UNCHANGED <<envVars, parentVars, atexit_reg, bitmap, pipeVars, rlim, wpc,
                 hits, wstatus>>

\* close(ctl_pipe[0]); close(ctl_pipe[1]); close(st_pipe[0]); close(st_pipe[1]);
C_Close ==
  /\ cpc = "close"
  /\ fds' = [fds EXCEPT !["child"] =
       FdClose(FdClose(FdClose(FdClose(@, ctl_pipe[1]), ctl_pipe[2]),
                       st_pipe[1]), st_pipe[2])]
  /\ cpc' = "execvp"
  /\ UNCHANGED <<envVars, parentVars, shmVars, atexit_reg, bitmap, pipeVars,
                 rlim, wpc, hits, wstatus>>

\* execvp(argv[0], argv); PFATAL(...) when it returns
Execvp(ok) ==
  /\ cpc = "execvp"
  /\ IF ok
     THEN \* the new image has no handlers; the descriptors stay open
          /\ cpc' = "fs_start"
          /\ atexit_reg' = atexit_reg \ {"child"}
          /\ UNCHANGED <<fds, shmVars>>
     ELSE /\ ChildExit
          /\ UNCHANGED atexit_reg
  /\ UNCHANGED <<envVars, parentVars, bitmap, pipeVars, rlim, wpc, hits, wstatus>>

C_Execvp == \E ok \in BOOLEAN : Execvp(ok)

(* ------------------ the fork server and its worker --------------------- *)
(* After execvp the child is the target. Its fork-server runtime says      *)
(* hello on FORKSRV_FD + 1, waits for 4 bytes on FORKSRV_FD, forks the     *)
(* worker and reports its pid, waits for the worker and reports its wait   *)
(* status. It can write short at any message and die at any point; a       *)
(* target without the runtime just exits. What the target does once the    *)
(* tool is gone is not followed, except that it exits.                     *)

\* pids a fork server may report: 7, 0, -1
PidWords == {<<7, 0, 0, 0>>, ZeroWord, <<255, 255, 255, 255>>}

\* wait statuses of the worker: exit(0), exit(1), SIGSEGV
StatusWords == {ZeroWord, <<0, 1, 0, 0>>, <<11, 0, 0, 0>>}

\* byte counts of a write on the status pipe: half a word, or all of it
WriteLens == {2, 4}

HelloWord == <<104, 105, 33, 0>>

fsParentVars == <<envVars, parentVars, shmVars, atexit_reg>>

ToolRuns == pc \notin {"exited", "killed"}

\* write(FORKSRV_FD + 1, word, 4) putting n bytes on the status pipe
FsWrite(word, n) ==
  /\ FdTarget(fds["child"], FORKSRV_FD + 1) = "st_w"
  /\ HasEnd("parent", "st_r")
  /\ st' = st \o SubSeq(word, 1, n)

FS_Hello ==
  /\ ToolRuns
  /\ cpc = "fs_start"
  /\ \E n \in WriteLens : FsWrite(HelloWord, n)
  /\ cpc' = "fs_wait"
  /\ UNCHANGED <<fsParentVars, bitmap, fds, ctl, rlim, wpc, hits, wstatus>>

FS_ReadTrigger ==
  /\ ToolRuns
  /\ cpc = "fs_wait"
  /\ FdTarget(fds["child"], FORKSRV_FD) = "ctl_r"
  /\ Len(ctl) >= 4
  /\ ctl' = SubSeq(ctl, 5, Len(ctl))
  /\ cpc' = "fs_fork"
  /\ UNCHANGED <<fsParentVars, bitmap, fds, st, rlim, wpc, hits, wstatus>>

FS_Fork ==
  /\ ToolRuns
  /\ cpc = "fs_fork"
  /\ \E w \in PidWords, n \in WriteLens : FsWrite(w, n)
  /\ wpc' = "running"
  /\ cpc' = "fs_waitpid"
  /\ UNCHANGED <<fsParentVars, bitmap, fds, ctl, rlim, hits, wstatus>>

\* the worker runs an instrumented edge: its hit count goes up, up to 255
W_Hit ==
  /\ ToolRuns
  /\ wpc = "running"
  /\ hits < MaxHits
  /\ \E i \in 0..(MAP_SIZE - 1) :
       bitmap' = [bitmap EXCEPT ![i] = Min(255, @ + 1)]
  /\ hits' = hits + 1
  /\ UNCHANGED <<fsParentVars, fds, pipeVars, cpc, rlim, wpc, wstatus>>

W_Exit ==
  /\ ToolRuns
  /\ wpc = "running"
  /\ wpc' = "exited"
  /\ wstatus' \in StatusWords
  /\ UNCHANGED <<fsParentVars, bitmap, fds, pipeVars, cpc, rlim, hits>>

\* waitpid() returned: the status goes out, the server waits again
FS_Status ==
  /\ ToolRuns
  /\ cpc = "fs_waitpid"
  /\ wpc = "exited"
  /\ \E n \in WriteLens : FsWrite(wstatus, n)
  /\ cpc' = "fs_wait"
  /\ UNCHANGED <<fsParentVars, bitmap, fds, ctl, rlim, wpc, hits, wstatus>>

\* the target exits or crashes: a failed read on a broken pipe, a target
\* without the runtime, a fault
FS_Die ==
  /\ cpc \in {"fs_start", "fs_wait", "fs_fork", "fs_waitpid"}
  /\ cpc' = "exited"
  /\ fds' = [fds EXCEPT !["child"] = AllClosed(@)]
  /\ UNCHANGED <<fsParentVars, bitmap, pipeVars, rlim, wpc, hits, wstatus>>

(* --------------------------- specification ----------------------------- *)

EmptyTab == [n \in {} |-> "closed"]

\* descriptor numbers that can be the lowest free one at startup
FdBases == {3} \cup ((FORKSRV_FD - 3)..(FORKSRV_FD + 1))

Init ==
  /\ pc = "main"
  /\ argc \in {1, 2}
  /\ env \in SUBSET {"AFL_QUIET", "AFL_SINK_OUTPUT"}
  /\ fd_base \in FdBases
  /\ be_quiet = FALSE
  /\ sink_output = FALSE
  /\ shm = "none"
  /\ rmid_by = {}
  /\ atexit_reg = {}
  /\ trace_bits = "null"
  /\ bitmap = ZeroMap
  /\ fds = [p \in {"parent", "child"} |-> EmptyTab]
  /\ st_pipe = <<-1, -1>>
  /\ ctl_pipe = <<-1, -1>>
  /\ st = <<>>
  /\ ctl = <<>>
  /\ forksrv_pid = 0
  /\ child_pid = ZeroWord
  /\ status = ZeroWord
  /\ exit_code = -1
  /\ out = <<>>
  /\ sys = <<>>
  /\ bits = -1
  /\ cpc = "none"
  /\ rlim = 0
  /\ wpc = "none"
  /\ hits = 0
  /\ wstatus = ZeroWord

Next ==
  \/ P_Main
  \/ P_SetupShm
  \/ P_Pipe
  \/ P_Fork
  \/ P_CloseEnds
  \/ P_WriteTrigger
  \/ P_ReadAck
  \/ P_ReadPid
  \/ P_ReadStatus
  \/ P_CountBits
  \/ P_ShowTuples
  \/ C_Rlimit
  \/ C_Sink
  \/ C_Dup2Ctl
  \/ C_Dup2St
  \/ C_Close
  \/ C_Execvp
  \/ FS_Hello
  \/ FS_ReadTrigger
  \/ FS_Fork
  \/ W_Hit
  \/ W_Exit
  \/ FS_Status
  \/ FS_Die

Spec == Init /\ [][Next]_vars

\* the steps of the tool's own process
ParentNext ==
  \/ P_Main
  \/ P_SetupShm
  \/ P_Pipe
  \/ P_Fork
  \/ P_CloseEnds
  \/ P_WriteTrigger
  \/ P_ReadAck
  \/ P_ReadPid
  \/ P_ReadStatus
  \/ P_CountBits
  \/ P_ShowTuples

\* The tool is one thread running straight-line code: whenever its next
\* statement can be executed (a system call of it can return), it is. No
\* progress is assumed of the child, the fork server or the worker.
SpecLive == Init /\ [][Next]_vars /\ WF_vars(ParentNext)

(* ------------- the bitmap algorithms on arbitrary contents ------------- *)
(* The tool at the return of run_target, after a handshake that completed  *)
(* with a worker that exited normally; the worker may have left any hit    *)
(* counts. The contents tried: one entry of any value, the others all 0,   *)
(* all 0x55, all 0xAA or all 0xFF; or two entries of 1 or 5, the others 0.  *)

FillVals == {0, 85, 170, 255}

PairVals == {1, 5}

\* one entry of any value over a uniform fill, or two small entries
BitmapInputs ==
  {[i \in 0..(MAP_SIZE - 1) |-> IF i = k THEN v ELSE b] :
     k \in 0..(MAP_SIZE - 1), v \in Byte, b \in FillVals}
  \cup
  {[i \in 0..(MAP_SIZE - 1) |-> IF i = k THEN v ELSE IF i = l THEN w ELSE 0] :
     k \in 0..(MAP_SIZE - 1), l \in 0..(MAP_SIZE - 1), v \in PairVals, w \in PairVals}

InitBitmap ==
  /\ pc = "count_bits"
  /\ argc = 2
  /\ env \in SUBSET {"AFL_QUIET"}
  /\ fd_base = 3
  /\ be_quiet = ("AFL_QUIET" \in env)
  /\ sink_output = FALSE
  /\ shm = "allocated"
  /\ rmid_by = {}
  /\ atexit_reg = {"parent"}
  /\ trace_bits = "mapped"
  /\ bitmap \in BitmapInputs
  /\ fds = [parent |-> [n \in 3..6 |-> CASE n = 3 -> "st_r"
                                          [] n = 6 -> "ctl_w"
                                          [] OTHER -> "closed"],
            child |-> [n \in (3..6) \cup {FORKSRV_FD, FORKSRV_FD + 1} |->
                         CASE n = FORKSRV_FD -> "ctl_r"
                           [] n = FORKSRV_FD + 1 -> "st_w"
                           [] OTHER -> "closed"]]
  /\ st_pipe = <<3, 4>>
  /\ ctl_pipe = <<5, 6>>
  /\ st = <<>>
  /\ ctl = <<>>
  /\ forksrv_pid = 5
  /\ child_pid = <<7, 0, 0, 0>>
  /\ status = ZeroWord
  /\ exit_code = -1
  /\ out = (IF be_quiet THEN <<>> ELSE <<Msg("banner", 0, 0)>>)
             \o (IF be_quiet THEN <<>>
                 ELSE <<Msg("-- Program output begins --", 0, 0),
                        Msg("-- Program output ends --", 0, 0)>>)
  /\ sys = <<<<"fork", 5, "forksrv_pid">>, <<"write", 4, "status">>,
             <<"read", 4, "status">>, <<"read", 4, "child_pid">>,
             <<"read", 4, "status">>>>
  /\ bits = -1
  /\ cpc = "fs_wait"
  /\ rlim = FORKSRV_FD + 6
  /\ wpc = "exited"
  /\ hits = MaxHits
  /\ wstatus = ZeroWord

NextBitmap ==
  \/ P_CountBits
  \/ P_ShowTuples
  \/ FS_Die

SpecBitmap == InitBitmap /\ [][NextBitmap]_vars

(* ------------------------------- claims -------------------------------- *)

IsCall(e) == e[1] # "fork"
IsRead(e) == e[1] = "read"
IsWrite(e) == e[1] = "write"
IsFork(e) == e[1] = "fork"

\* pipe calls of the parent so far, and the reads, writes, forks among sys
Calls == SelectSeq(sys, IsCall)
Reads == SelectSeq(sys, IsRead)
Writes == SelectSeq(sys, IsWrite)
Forks == SelectSeq(sys, IsFork)

\* the 4 bytes, as s32, are <= 0
NonPositive(w) == w = ZeroWord \/ w[4] >= 128

\* the tool's process is gone
Gone == pc \in {"exited", "killed"}

\* run_target has returned to main
Returned == pc \in {"count_bits", "show_tuples"} \/ bits >= 0

\* three full status words were read
HandshakeDone == Len(Reads) = 3 /\ \A k \in 1..3 : Reads[k][2] = 4

LastOut == out[Len(out)]

\* C1: once the tool's process is gone, a region that was allocated has
\* been removed, whatever way the process ended.
C1_RegionRemovedWhenGone ==
  (Gone /\ shm # "none") => shm = "removed"

\* C2: the parent writes the trigger once, first; it reads only after the
\* write returned 4, at most three times, into status, child_pid, status
\* in that order, each read only after the one before returned 4; the third
\* read follows a positive pid; run_target returns only after three full
\* reads.
C2_HandshakeOrder ==
  /\ Len(Calls) <= 4
  /\ \A k \in 1..Len(Calls) :
       /\ Calls[k][1] = (IF k = 1 THEN "write" ELSE "read")
       /\ Calls[k][3] = <<"status", "status", "child_pid", "status">>[k]
       /\ k > 1 => Calls[k - 1][2] = 4
  /\ Len(Reads) = 3 => ~NonPositive(child_pid)
  /\ Returned => HandshakeDone

C2_Witness ==
  /\ pc = "count_bits"
  /\ Calls = <<<<"write", 4, "status">>, <<"read", 4, "status">>,
               <<"read", 4, "child_pid">>, <<"read", 4, "status">>>>

\* a status read that came back short, or a pid read that gave a pid <= 0
FailedRead(k) ==
  /\ sys[k][1] = "read"
  /\ \/ sys[k][2] # 4
     \/ sys[k][3] = "child_pid" /\ NonPositive(child_pid)

\* C3: a short status read or a pid <= 0 ends the tool at once: the fault
\* message is the last thing printed, the exit status is 1, no call
\* follows the failed read, the bitmap is not counted, no tuple is printed.
C3_FailedReadIsFatal ==
  \A k \in 1..Len(sys) :
    FailedRead(k) =>
      /\ k = Len(sys)
      /\ pc = "exited"
      /\ exit_code = 1
      /\ LastOut = Msg(FaultMsg, 0, 0)
      /\ bits = -1
      /\ \A m \in 1..Len(out) : out[m][1] # "tuple"

C3_Witness ==
  /\ Len(sys) = 5
  /\ sys[5] = <<"read", 2, "status">>
  /\ pc = "exited"

\* C4: a trigger write that fails on a broken pipe ends the tool through
\* exit(1) with the fault message, without a second write.
C4_BrokenPipeExitsFatally ==
  (\E k \in 1..Len(sys) : sys[k] = <<"write", -1, "status">>) =>
    /\ pc = "exited"
    /\ exit_code = 1
    /\ LastOut = Msg(FaultMsg, 0, 0)
    /\ Len(Writes) = 1

\* the step is count_bits or show_tuples going through the bitmap
ParentTouchesBitmap ==
  \/ pc = "count_bits" /\ bits' # bits
  \/ pc = "show_tuples" /\ pc' # pc

\* C5: the parent goes through the bitmap only once three full status
\* words are in and the worker is no longer running; every other change of
\* the bitmap is a write of the running worker.
C5_BitmapAfterStatus ==
  [][/\ ParentTouchesBitmap => (HandshakeDone /\ wpc # "running")
     /\ (bitmap' # bitmap /\ ~ParentTouchesBitmap) => (wpc = "running" /\ pc' = pc)]_vars

C5_Witness ==
  /\ pc = "exited"
  /\ exit_code = 0
  /\ wpc = "exited"
  /\ bits > 0
  /\ hits > 0

\* C6: the parent forks at most once and writes the trigger at most once,
\* and whenever run_target has returned it has forked once and written
\* the 4-byte trigger once.
C6_OneExecution ==
  /\ Len(Forks) <= 1
  /\ Len(Writes) <= 1
  /\ Returned =>
       /\ Len(Forks) = 1 /\ Forks[1][2] > 0
       /\ Writes = <<<<"write", 4, "status">>>>

C6_Witness ==
  /\ pc = "show_tuples"
  /\ Len(Forks) = 1
  /\ Len(Writes) = 1

(* claims about the bitmap algorithms, checked under SpecBitmap *)

\* the bucket table: <<lowest value, highest value, bucket>>
Buckets ==
  {<<0, 0, 0>>, <<1, 1, 1>>, <<2, 2, 2>>, <<3, 3, 4>>, <<4, 7, 8>>,
   <<8, 15, 16>>, <<16, 31, 32>>, <<32, 127, 64>>, <<128, 255, 128>>}

BucketOf(v) == (CHOOSE t \in Buckets : t[1] <= v /\ v <= t[2])[3]

\* C7: show_tuples' call of classify_counts replaces every one of the
\* MAP_SIZE entries by its bucket in the table, and the bitmap keeps its
\* length.
C7_ClassifyByTable ==
  [][(pc = "show_tuples" /\ pc' # pc) =>
       /\ DOMAIN bitmap' = 0..(MAP_SIZE - 1)
       /\ \A i \in 0..(MAP_SIZE - 1) : bitmap'[i] = BucketOf(bitmap[i])]_vars

C7_Witness ==
  /\ pc = "exited"
  /\ exit_code = 0
  /\ bitmap[0] = 16
  /\ bitmap[MAP_SIZE - 1] = 128

\* count_bits has returned and the bitmap still holds the raw counts
RawCounted == bits >= 0 /\ (pc = "show_tuples" \/ exit_code = 1)

Idempotent(v) == ClassifyEntry(ClassifyEntry(v)) = ClassifyEntry(v)

\* what classify_counts makes of each count 0..255
Classified == [v \in Byte |-> ClassifyEntry(v)]

Monotone(v, w) == v <= w => Classified[v] <= Classified[w]

\* the raw count v of an entry against every count w in 0..255, in both
\* orders; the bitmaps tried put every v in 0..255 in an entry, so every
\* pair of counts is compared
MonotoneAgainstAll(v) == \A w \in Byte : Monotone(v, w) /\ Monotone(w, v)

\* C8 as claimed: on the raw counts of any bitmap, classifying twice gives
\* what classifying once gives, and for all counts v <= w in 0..255 the
\* larger count never gets the smaller bucket.
C8_IdempotentAndMonotone ==
  pc = "show_tuples" =>
    \A v \in {bitmap[i] : i \in 0..(MAP_SIZE - 1)} :
      Idempotent(v) /\ MonotoneAgainstAll(v)

\* C8 as amended: for all counts v <= w in 0..255 the larger count never
\* gets the smaller bucket, and classifying twice gives what classifying
\* once gives exactly for the counts 0, 1, 2 and 32..255; for 3..31 the
\* second pass moves the entry one bucket up.
C8_MonotoneIdempotentOutside3To31 ==
  pc = "show_tuples" =>
    \A v \in {bitmap[i] : i \in 0..(MAP_SIZE - 1)} :
      /\ MonotoneAgainstAll(v)
      /\ Idempotent(v) <=> (v < 3 \/ v > 31)
      /\ (v >= 3 /\ v <= 31) =>
           ClassifyEntry(ClassifyEntry(v)) = 2 * ClassifyEntry(v)

C8_Witness ==
  /\ pc = "show_tuples"
  /\ bitmap[0] = 5
  /\ bitmap[1] = 170

RECURSIVE PopByte(_)
\* number of 1 bits of a byte
PopByte(n) == IF n = 0 THEN 0 ELSE (n % 2) + PopByte(n \div 2)

RECURSIVE PopSum(_, _)
\* 1 bits of the entries i..MAP_SIZE-1
PopSum(mem, i) == IF i >= MAP_SIZE THEN 0 ELSE PopByte(mem[i]) + PopSum(mem, i + 1)

NonZeroEntries == {i \in 0..(MAP_SIZE - 1) : bitmap[i] # 0}

\* C9 as claimed: count_bits gives 0 for an all-zero bitmap and 1 for a
\* bitmap with exactly one non-zero entry, whatever its value.
C9_OneNonZeroByteCountsOne ==
  RawCounted =>
    /\ bitmap = ZeroMap => bits = 0
    /\ Cardinality(NonZeroEntries) = 1 => bits = 1

\* C9 as amended: count_bits gives 0 for an all-zero bitmap; for a bitmap
\* with exactly one non-zero entry it gives the number of 1 bits of that
\* entry, from 1 to 8, which is 1 exactly when the value is a power of two.
C9_OneNonZeroByteCountsItsBits ==
  RawCounted =>
    /\ bitmap = ZeroMap => bits = 0
    /\ \A i \in 0..(MAP_SIZE - 1) :
         NonZeroEntries = {i} =>
           /\ bits = PopByte(bitmap[i])
           /\ bits >= 1 /\ bits <= 8
           /\ bits = 1 <=> bitmap[i] \in {1, 2, 4, 8, 16, 32, 64, 128}

C9_Witness ==
  /\ RawCounted
  /\ NonZeroEntries = {MAP_SIZE - 1}
  /\ bitmap[MAP_SIZE - 1] = 255
  /\ bits = 8

\* C10: count_bits returns the number of 1 bits of all MAP_SIZE raw
\* entries.
C10_CountIsPopulation ==
  RawCounted => bits = PopSum(bitmap, 0)

C10_Witness ==
  /\ RawCounted
  /\ \A i \in 0..(MAP_SIZE - 1) : bitmap[i] = 255
  /\ bits = 8 * MAP_SIZE


(* claims about the outcome of a run, checked under Spec *)

IsTuple(m) == m[1] = "tuple"

\* the tuple lines printed so far
TupleOut == SelectSeq(out, IsTuple)

\* C11: the tool ends with status 0 exactly when a target was named, the
\* handshake completed with a positive pid and the raw bitmap has a set
\* bit; a completed handshake with an all-zero bitmap ends in the fatal
\* "No instrumentation data recorded" exit, status 1, without a tuple
\* line; a missing argument or a failed handshake ends with a non-zero
\* status.
C11_ExitStatus ==
  Gone =>
    /\ exit_code = 0 <=>
         (argc >= 2 /\ HandshakeDone /\ ~NonPositive(child_pid) /\ bitmap # ZeroMap)
    /\ (HandshakeDone /\ bitmap = ZeroMap) =>
         (pc = "exited" /\ exit_code = 1 /\ LastOut = Msg(NoDataMsg, 0, 0)
            /\ TupleOut = <<>>)
    /\ (argc < 2 \/ ~HandshakeDone) => exit_code # 0


(* claims about the report, checked under SpecBitmap *)

\* C12: the tuple report has exactly one line per index whose classified
\* value is non-zero, in strictly ascending index order, each line giving
\* the index and the classified value of the raw count; no index with a
\* zero value is printed and none twice; the run then ends with status 0.
C12_TupleReport ==
  [][(pc = "show_tuples" /\ pc' # pc) =>
       LET t == TupleOut'
       IN  /\ exit_code' = 0
           /\ {t[m][2] : m \in 1..Len(t)}
                = {i \in 0..(MAP_SIZE - 1) : BucketOf(bitmap[i]) # 0}
           /\ \A m \in 1..Len(t) :
                /\ t[m][3] = BucketOf(bitmap[t[m][2]])
                /\ \A n \in 1..Len(t) : m < n => t[m][2] < t[n][2]]_vars

\* the report of a bitmap with the raw counts 1 and 5 in two entries
C12_Witness ==
  /\ exit_code = 0
  /\ TupleOut = << <<"tuple", 1, 1>>, <<"tuple", 2, 8>> >>


\* C13: started without a target argument the tool prints the usage text
\* and ends with a non-zero status, and at no point of that run is a
\* region allocated, a pipe created or a process forked.
C13_NoArgumentOnlyUsage ==
  argc < 2 =>
    /\ pc \in {"main", "exited"}
    /\ shm = "none" /\ rmid_by = {} /\ atexit_reg = {} /\ trace_bits = "null"
    /\ sys = <<>>
    /\ \A n \in DOMAIN fds["parent"] : fds["parent"][n] \notin PipeEnds
    /\ cpc = "none" /\ st_pipe = <<-1, -1>> /\ ctl_pipe = <<-1, -1>>
    /\ pc = "exited" => (exit_code = 1 /\ LastOut = Msg("usage", 0, 0))

C13_Witness == argc < 2 /\ pc = "exited" /\ LastOut = Msg("usage", 0, 0)


IsSigLine(m) == m[1] = "+++ Killed by signal"

\* the "Killed by signal" lines printed so far
SigOut == SelectSeq(out, IsSigLine)

\* the termination signal a wait status carries, 0 if none
SignalOf(w) == IF (w[1] % 128) \in {0, 127} THEN 0 ELSE w[1] % 128

\* C14: after a completed handshake the tool has printed "Killed by
\* signal N" exactly when the status read reports a death by signal, N
\* being the signal of that status, and no such line otherwise; the line
\* is not fatal: the run goes on to the bitmap check, and how it ends is
\* decided by the bitmap alone, not by the status.
C14_SignalNotice ==
  /\ ~HandshakeDone => SigOut = <<>>
  /\ HandshakeDone =>
       /\ SigOut = IF SignalOf(status) # 0
                   THEN <<Msg("+++ Killed by signal", SignalOf(status), 0)>>
                   ELSE <<>>
       /\ pc \in {"count_bits", "show_tuples", "exited", "killed"}
       /\ ~Gone => exit_code = -1
       /\ Gone =>
            IF trace_bits # "mapped" THEN pc = "killed"
            ELSE IF bitmap = ZeroMap
                 THEN exit_code = 1 /\ LastOut = Msg(NoDataMsg, 0, 0)
                 ELSE exit_code = 0 /\ TupleOut # <<>>

\* a report printed after the notice of a worker killed by SIGSEGV
C14_Witness ==
  /\ exit_code = 0
  /\ SigOut = <<Msg("+++ Killed by signal", 11, 0)>>
  /\ TupleOut # <<>>


\* C15: the removal of the region is issued by the tool's own process
\* only: the forked child never issues it on any path before execvp, its
\* fatal paths included.
C15_OnlyParentRemoves == "child" \notin rmid_by

\* kinds of output lines that report a fatal error or a bad command line
FatalKinds ==
  {"usage", "shmget() failed", "shmat() failed", "pipe() failed",
   "fork() failed", FaultMsg, NoDataMsg}

\* C16: with AFL_QUIET set the tool prints tuple lines and fatal errors
\* only: no banner, no program-output marker, no "Tuples recorded"
\* header and no signal notice.
C16_QuietPrintsNoNotice ==
  "AFL_QUIET" \in env =>
    \A m \in 1..Len(out) : out[m][1] \in {"tuple"} \cup FatalKinds

\* C17: when attaching the region fails, setup_shm ends the tool with a
\* fatal error and status 1 before a pipe is created or a child forked,
\* and nothing is ever loaded through the pointer.
C17_ShmatFailureIsFatal ==
  trace_bits = "bad" =>
    /\ pc = "exited" /\ exit_code = 1
    /\ st_pipe = <<-1, -1>> /\ ctl_pipe = <<-1, -1>>
    /\ Forks = <<>>

\* C18: when the child calls execvp, whatever descriptor numbers pipe()
\* returned, FORKSRV_FD is open on the read end of the control pipe,
\* FORKSRV_FD + 1 on the write end of the status pipe, and no other
\* descriptor of the child refers to an end of either pipe.
C18_ChildDescriptorsAtExec ==
  cpc = "execvp" =>
    /\ FdTarget(fds["child"], FORKSRV_FD) = "ctl_r"
    /\ FdTarget(fds["child"], FORKSRV_FD + 1) = "st_w"
    /\ \A n \in DOMAIN fds["child"] \ {FORKSRV_FD, FORKSRV_FD + 1} :
         fds["child"][n] \notin PipeEnds


(* termination, checked under SpecLive *)

\* the tool sits in a read of the status pipe that cannot return: nothing
\* is queued and a write end of the pipe is still open somewhere
Blocked ==
  /\ pc \in {"read_ack", "read_pid", "read_status"}
  /\ st = <<>>
  /\ \E p \in {"parent", "child"} : \E n \in DOMAIN fds[p] : fds[p][n] = "st_w"

\* C19: the tool's process ends unless one of its reads never returns:
\* every run either reaches the end of the process or stays for ever in a
\* read on the status pipe for which nothing arrives while the pipe stays
\* open; a process that ended has issued at most one write and three
\* reads; and while it is blocked in such a read the tool takes no step:
\* no timeout fires, nothing is printed, it does not exit.
C19_ExitsUnlessReadBlocks ==
  /\ (<>Gone) \/ (<>[]Blocked)
  /\ [](Gone => (Len(Writes) <= 1 /\ Len(Reads) <= 3))
  /\ [][Blocked => (pc' = pc /\ out' = out /\ exit_code' = exit_code /\ sys' = sys)]_vars

\* the fork server has been asked for a worker and has not answered yet
C19_Witness == Blocked /\ pc = "read_pid" /\ cpc = "fs_wait"


\* C20: classification leaves an entry zero exactly when its raw count is
\* zero, so a bitmap that count_bits found non-empty yields at least one
\* tuple line; status 0 is reached through the report only, and the
\* report has a line whose index had a non-zero raw count.
C20_ExitZeroHasTuple ==
  [][/\ (pc = "show_tuples" /\ pc' # pc) =>
          /\ \A i \in 0..(MAP_SIZE - 1) : (bitmap'[i] = 0) <=> (bitmap[i] = 0)
          /\ bits > 0
          /\ \E m \in 1..Len(TupleOut') : bitmap[TupleOut'[m][2]] # 0
     /\ (exit_code' = 0 /\ exit_code # 0) => pc = "show_tuples"]_vars

\* a report whose first line is for a raw count of 128 or more
C20_Witness ==
  /\ exit_code = 0
  /\ bits > 0
  /\ Len(TupleOut) >= 1
  /\ TupleOut[1][3] = 128

====
